---- MODULE Spec2Model ----
(***************************************************************************)
(* Model of flatnotes (src/flatnotes/flatnotes.py): the Whoosh index of a  *)
(* directory of markdown notes, its synchronization with the files         *)
(* (Flatnotes.update_index) and the reads that trigger it (search,         *)
(* get_tags).                                                              *)
(*                                                                         *)
(* Strings are sequences of one-character strings, so that the path,       *)
(* filename and regular-expression computations of the source are computed *)
(* and not assumed.                                                        *)
(*                                                                         *)
(* Spec      one caller, every call of the API one atomic action, file     *)
(*           changes between the calls.                                    *)
(* SpecConc  two callers, update_index one step per file-system or index   *)
(*           access, file changes between any two steps.                   *)
(* SpecSort  one caller, searches with every sort key and order.           *)
(* SpecOpen  the process ends, the index directory changes, and a new      *)
(*           Flatnotes object opens the index.                             *)
(* SpecPure  extract_tags and pre_process_search_term applied to strings.  *)
(***************************************************************************)
EXTENDS Integers, Sequences, FiniteSets, TLC

VARIABLES
    files,    \* the notes directory: path -> [content, mtime] or NoFile
    order,    \* the order in which the directories list their entries
    index,    \* the committed index: the documents, in document-number order
    lock,     \* the index's WRITELOCK: "free", a caller, or "leaked"
    th,       \* each caller's position in its call and the call's locals
    last,     \* the call that has just ended and how (NoCall after any other step)
    edited,   \* the indexed file that was just given a new tag and a new mtime
    changes,  \* number of file changes so far
    running,  \* a Flatnotes object is constructed on the notes directory
    index_dir,\* the directory .flatnotes: "absent", "outdated" or "current"
    arg,      \* SpecPure: the string a function is applied to
    res       \* SpecPure: the function applied and what it returned

vars == <<files, order, index, lock, th, last, edited, changes,
          running, index_dir, arg, res>>

-----------------------------------------------------------------------------
(* Bounds *)

\* Modification times are 0..MaxMtime, in ticks of half a stored time unit.
MaxMtime == 2
\* Spec: at most this many file changes in a behaviour.
MaxChanges == 3
\* SpecConc: at most this many file changes in a behaviour.
MaxConcChanges == 2
\* SpecSort: at most this many file changes in a behaviour.
MaxSortChanges == 2
\* SpecPure: the strings the functions are applied to have at most this length.
MaxLen == 3

-----------------------------------------------------------------------------
(* Strings, paths *)

MARKDOWN_EXT == <<".", "m", "d">>

\* The notes directory (Flatnotes.dir) and the three note paths of the model:
\* two notes at the root, the name of one a suffix of the other's, and a note
\* in a subdirectory with the base name of a root note.
NotesDir == <<"/", "n">>
RootA  == NotesDir \o <<"/">> \o <<"a">> \o MARKDOWN_EXT
RootBA == NotesDir \o <<"/">> \o <<"b", "a">> \o MARKDOWN_EXT
SubA   == NotesDir \o <<"/", "s", "/">> \o <<"a">> \o MARKDOWN_EXT
Paths  == {RootA, RootBA, SubA}

\* The value of a path that holds no file.
NoFile == [content |-> <<>>, mtime |-> -1]
Mtimes == 0..MaxMtime

\* Note contents: one without a tag, one with the tag X.
PlainContent == <<"w">>
TagContent   == <<"w", " ", "#", "X">>
Contents     == {PlainContent, TagContent}

Min(S) == CHOOSE x \in S : \A y \in S : x <= y
Max(S) == CHOOSE x \in S : \A y \in S : x >= y

\* Python's `s in t` on strings.
IsSubstring(s, t) ==
    \E i \in 0..(Len(t) - Len(s)) : SubSeq(t, i + 1, i + Len(s)) = s

\* os.path.join(self.dir, name)
JoinDir(name) == NotesDir \o <<"/">> \o name

\* os.path.split(filepath)[1]
Basename(p) ==
    LET slashes == {i \in 1..Len(p) : p[i] = "/"}
    IN  IF slashes = {} THEN p ELSE SubSeq(p, Max(slashes) + 1, Len(p))

\* helpers.strip_ext: the name without its last extension.
strip_ext(name) ==
    LET dots == {i \in 2..Len(name) : name[i] = "."}
    IN  IF dots = {} THEN name ELSE SubSeq(name, 1, Max(dots) - 1)

\* Note.filename
filename(title) == title \o MARKDOWN_EXT

\* os.path.exists
exists(fs, p) == p \in Paths /\ fs[p] # NoFile

\* datetime.fromtimestamp(mtime): the float of getmtime at the datetime's
\* resolution; two ticks fall into one stored time.
fromtimestamp(m) == m \div 2

\* glob.glob(dir/**/*.md, recursive=True): the files of the root first, then
\* those of the subdirectories, each directory in its listing order.
glob(fs, ord) == SelectSeq(ord, LAMBDA p : fs[p] # NoFile)

\* Note.filepath: the last path of the listing that contains the filename,
\* the empty path when there is none.
filepath(fs, ord, title) ==
    LET dirlist == glob(fs, ord)
        hits == {i \in 1..Len(dirlist) : IsSubstring(filename(title), dirlist[i])}
    IN  IF hits = {} THEN <<>> ELSE dirlist[Max(hits)]

\* Flatnotes._get_notes: the title of a Note for every listed file.
get_notes(fs, ord) ==
    LET dirlist == glob(fs, ord)
    IN  [i \in 1..Len(dirlist) |-> strip_ext(Basename(dirlist[i]))]

-----------------------------------------------------------------------------
(* Tag extraction *)

WordChars  == {"a", "b", "w", "x", "X", "m", "d", "t", "g", "s",
               "S", "h", "o", "p", "i", "n", "r", "c", "e", "l"}
SpaceChars == {" "}

lower(c) == IF c = "X" THEN "x" ELSE IF c = "S" THEN "s" ELSE c
LowerStr(s) == [i \in 1..Len(s) |-> lower(s[i])]

\* The end of the run of word characters that starts at i.
RunEnd(s, i) ==
    Max({j \in i..Len(s) : \A k \in i..j : s[k] \in WordChars})

\* TAGS_RE matches at i: a run of word characters after a "#" that starts
\* the string or follows whitespace, the run followed by whitespace or the end.
TagAt(s, i) ==
    /\ s[i] \in WordChars
    /\ i > 1 /\ s[i - 1] = "#"
    /\ (i = 2 \/ s[i - 2] \in SpaceChars)
    /\ LET e == RunEnd(s, i) IN e = Len(s) \/ s[e + 1] \in SpaceChars

TagStarts(s) == {i \in 1..Len(s) : TagAt(s, i)}

RECURSIVE Remove(_, _, _)
Remove(s, k, drop) ==
    IF k > Len(s) THEN <<>>
    ELSE (IF k \in drop THEN <<>> ELSE <<s[k]>>) \o Remove(s, k + 1, drop)

\* helpers.re_extract(TAGS_RE, content): the content with the matches removed
\* and the matches.
re_extract(s) ==
    LET starts == TagStarts(s)
    IN  [text |-> Remove(s, 1, UNION {i..RunEnd(s, i) : i \in starts}),
         tags |-> {SubSeq(s, i, RunEnd(s, i)) : i \in starts}]

\* Flatnotes.extract_tags
extract_tags(s) ==
    LET r == re_extract(s)
    IN  [text |-> r.text, tags |-> {LowerStr(t) : t \in r.tags}]

-----------------------------------------------------------------------------
(* The index writer (whoosh.writing.IndexWriter as the source uses it) *)

\* A writer's staged work: the committed documents it deleted and the
\* documents it added.
NewWriter == [deleted |-> {}, added |-> <<>>]

\* writer.delete_by_term("filename", name): every committed document of the name.
delete_by_term(w, idx, name) ==
    [w EXCEPT !.deleted = @ \cup {i \in 1..Len(idx) : idx[i].filename = name}]

\* writer.update_document(...): deletes the first committed document that has
\* the unique filename and is not deleted yet, then adds the document.
\* Documents added by this writer are not looked at.
update_document(w, idx, doc) ==
    LET same == {i \in 1..Len(idx) : idx[i].filename = doc.filename /\ i \notin w.deleted}
    IN  [deleted |-> w.deleted \cup (IF same = {} THEN {} ELSE {Min(same)}),
         added   |-> Append(w.added, doc)]

RECURSIVE Kept(_, _, _)
Kept(idx, k, deleted) ==
    IF k > Len(idx) THEN <<>>
    ELSE (IF k \in deleted THEN <<>> ELSE <<idx[k]>>) \o Kept(idx, k + 1, deleted)

\* writer.commit(): with mergetype CLEAR the committed documents are dropped,
\* otherwise those the writer deleted; the added documents follow.
commit(w, idx, clean) ==
    (IF clean THEN <<>> ELSE Kept(idx, 1, w.deleted)) \o w.added

\* The document _add_note_to_index writes for a note, given the content and
\* the modification time it read.
NoteDoc(title, content, mtime) ==
    LET x == extract_tags(content)
    IN  [filename      |-> filename(title),
         last_modified |-> fromtimestamp(mtime),
         title         |-> title,
         content       |-> x.text,
         tags          |-> x.tags]

-----------------------------------------------------------------------------
(* update_index as one run on an unchanging directory *)

\* _add_note_to_index(writer, note): note.content and note.last_modified are
\* read from note.filepath.
add_note_to_index(w, fs, ord, idx, title) ==
    LET fp == filepath(fs, ord, title)
    IN  update_document(w, idx, NoteDoc(title, fs[fp].content, fs[fp].mtime))

\* IndexedStep without its first branch: the document of a missing file is
\* taken for indexed and stays.
IndexedStepKeepsMissing(s, fs, ord, idx, i) ==
    LET idx_filename == idx[i].filename
        idx_filepath == JoinDir(idx_filename)
    IN  IF exists(fs, idx_filepath)
           /\ fromtimestamp(fs[idx_filepath].mtime) # idx[i].last_modified
        THEN [w       |-> add_note_to_index(s.w, fs, ord, idx, strip_ext(idx_filename)),
              indexed |-> s.indexed \cup {idx_filename}]
        ELSE [s EXCEPT !.indexed = @ \cup {idx_filename}]

\* The body of the loop over the indexed documents, for document i.
\* s is [w: the writer, indexed: the filenames marked as indexed].
IndexedStep(s, fs, ord, idx, i) ==
    LET idx_filename == idx[i].filename
        idx_filepath == JoinDir(idx_filename)
    IN  IF ~exists(fs, idx_filepath)
        THEN [s EXCEPT !.w = delete_by_term(@, idx, idx_filename)]
        ELSE IF fromtimestamp(fs[idx_filepath].mtime) # idx[i].last_modified
        THEN [w       |-> add_note_to_index(s.w, fs, ord, idx, strip_ext(idx_filename)),
              indexed |-> s.indexed \cup {idx_filename}]
        ELSE [s EXCEPT !.indexed = @ \cup {idx_filename}]

RECURSIVE IndexedLoop(_, _, _, _, _)
IndexedLoop(s, fs, ord, idx, i) ==
    IF i > Len(idx) THEN s
    ELSE IndexedLoop(IndexedStep(s, fs, ord, idx, i), fs, ord, idx, i + 1)

\* The body of the loop over _get_notes(), for note j.
NewStep(s, fs, ord, idx, notes, j) ==
    IF filename(notes[j]) \notin s.indexed
    THEN [s EXCEPT !.w = add_note_to_index(@, fs, ord, idx, notes[j])]
    ELSE s

RECURSIVE NewLoop(_, _, _, _, _, _)
NewLoop(s, fs, ord, idx, notes, j) ==
    IF j > Len(notes) THEN s
    ELSE NewLoop(NewStep(s, fs, ord, idx, notes, j), fs, ord, idx, notes, j + 1)

\* Flatnotes.update_index: the writer when it reaches writer.commit().
staged(fs, ord, idx) ==
    LET s1 == IndexedLoop([w |-> NewWriter, indexed |-> {}], fs, ord, idx, 1)
        s2 == NewLoop(s1, fs, ord, idx, get_notes(fs, ord), 1)
    IN  s2.w

\* Flatnotes.update_index(clean): the index it commits.
update_index(fs, ord, idx, clean) == commit(staged(fs, ord, idx), idx, clean)

-----------------------------------------------------------------------------
(* Search *)

Star == <<"*">>
TagsPrefix == <<"t", "a", "g", "s", ":">>

\* The terms the callers search for: everything, and the tag x.
SearchTerms == {Star, <<"#", "x">>}

RECURSIVE Strip(_)
Strip(s) ==
    IF s = <<>> THEN s
    ELSE IF s[1] \in SpaceChars THEN Strip(Tail(s))
    ELSE IF s[Len(s)] \in SpaceChars THEN Strip(SubSeq(s, 1, Len(s) - 1))
    ELSE s

\* HashTagAt without the lookbehind: a "#" anywhere.
HashTagAtAnywhere(s, i) ==
    /\ s[i] = "#"
    /\ i < Len(s) /\ s[i + 1] \in WordChars
    /\ LET e == RunEnd(s, i + 1) IN e = Len(s) \/ s[e + 1] \in SpaceChars

\* TAGS_WITH_HASH_RE matches at i: a "#" that starts the term or follows
\* whitespace, then word characters up to whitespace or the end.
HashTagAt(s, i) ==
    /\ s[i] = "#"
    /\ (i = 1 \/ s[i - 1] \in SpaceChars)
    /\ i < Len(s) /\ s[i + 1] \in WordChars
    /\ LET e == RunEnd(s, i + 1) IN e = Len(s) \/ s[e + 1] \in SpaceChars

RECURSIVE HashToField(_, _)
HashToField(s, k) ==
    IF k > Len(s) THEN <<>>
    ELSE (IF HashTagAt(s, k) THEN TagsPrefix ELSE <<s[k]>>) \o HashToField(s, k + 1)

\* Flatnotes.pre_process_search_term
pre_process_search_term(term) == HashToField(Strip(term), 1)

\* The words of a text: its runs of word characters.
Words(s) ==
    {SubSeq(s, i, RunEnd(s, i)) :
        i \in {k \in 1..Len(s) : s[k] \in WordChars /\ (k = 1 \/ s[k - 1] \notin WordChars)}}

\* The tokens of a term: its runs of characters other than whitespace.
RECURSIVE Tokens(_)
Tokens(s) ==
    IF s = <<>> THEN <<>>
    ELSE IF s[1] \in SpaceChars THEN Tokens(Tail(s))
    ELSE LET e == Max({j \in 1..Len(s) : \A k \in 1..j : s[k] \notin SpaceChars})
         IN  <<SubSeq(s, 1, e)>> \o Tokens(SubSeq(s, e + 1, Len(s)))

OrToken == <<"O", "R">>

\* parser.parse(term) raises on an expression outside its grammar: here one
\* with unbalanced parentheses.
Malformed(term) ==
    Cardinality({k \in 1..Len(term) : term[k] = "("})
        # Cardinality({k \in 1..Len(term) : term[k] = ")"})

\* The weight of one clause on one document: tags:name is a term of the
\* field tags; any other word is looked up in title, content and tags
\* (MultifieldParser); a match in title or tags weighs 2 (field_boost), a
\* match in content 1.
ClauseWeight(doc, tok) ==
    IF Len(tok) > Len(TagsPrefix) /\ SubSeq(tok, 1, Len(TagsPrefix)) = TagsPrefix
    THEN IF LowerStr(SubSeq(tok, Len(TagsPrefix) + 1, Len(tok))) \in doc.tags THEN 2 ELSE 0
    ELSE (IF LowerStr(tok) \in {LowerStr(x) : x \in Words(doc.title)} THEN 2 ELSE 0)
         + (IF LowerStr(tok) \in {LowerStr(x) : x \in Words(doc.content)} THEN 1 ELSE 0)
         + (IF LowerStr(tok) \in doc.tags THEN 2 ELSE 0)

\* parser.parse(term), or Every() for "*": the clauses of the query (the
\* tokens of the term without the operator OR) and how they are joined: with
\* OR when the operator stands between them, otherwise with AND, the
\* parser's default group.
parse(term) ==
    IF term = Star THEN [every |-> TRUE, isor |-> FALSE, clauses |-> <<>>]
    ELSE LET toks == Tokens(term)
         IN  [every   |-> FALSE,
              isor    |-> \E k \in 1..Len(toks) : toks[k] = OrToken,
              clauses |-> SelectSeq(toks, LAMBDA tok : tok # OrToken)]

\* The query on one document: Every() matches every document, otherwise all
\* of the clauses must match, or any of them when they are joined with OR.
QueryMatches(doc, q) ==
    IF q.every THEN TRUE
    ELSE IF q.isor
    THEN \E k \in 1..Len(q.clauses) : ClauseWeight(doc, q.clauses[k]) > 0
    ELSE q.clauses # <<>> /\ \A k \in 1..Len(q.clauses) : ClauseWeight(doc, q.clauses[k]) > 0

\* The query of a preprocessed term on one document.
Matches(doc, term) == QueryMatches(doc, parse(term))

RECURSIVE SumWeights(_, _, _)
SumWeights(doc, cl, k) ==
    IF k > Len(cl) THEN 0 ELSE ClauseWeight(doc, cl[k]) + SumWeights(doc, cl, k + 1)

\* hit.score of a matching document: 1 under Every(), otherwise the weights
\* of the clauses that match.
Score(doc, q) ==
    IF q.every THEN 1 ELSE SumWeights(doc, q.clauses, 1)

\* SearchResult.score when the search was sorted by a field.
NoScore == -1

Sorts == {"score", "title", "last_modified"}
SortOrders == {"asc", "desc"}

\* The characters of the titles, in the order of their codes.
TitleChars == <<"a", "b">>
CharCode(c) == CHOOSE k \in 1..Len(TitleChars) : TitleChars[k] = c

\* s < t on strings.
StrLess(s, t) ==
    \E k \in 1..(Len(t)) :
        /\ k <= Len(s) + 1
        /\ SubSeq(s, 1, k - 1) = SubSeq(t, 1, k - 1)
        /\ (k = Len(s) + 1 \/ CharCode(s[k]) < CharCode(t[k]))

\* The sort key of document i is below that of document j: the field's value
\* when sorted by a field, otherwise the negated score.
KeyLess(idx, q, sortedby, i, j) ==
    IF sortedby = "title" THEN StrLess(idx[i].title, idx[j].title)
    ELSE IF sortedby = "last_modified" THEN idx[i].last_modified < idx[j].last_modified
    ELSE Score(idx[i], q) > Score(idx[j], q)

\* The collector's order of its items (key, document number).
Before(idx, q, sortedby, i, j) ==
    \/ KeyLess(idx, q, sortedby, i, j)
    \/ ~KeyLess(idx, q, sortedby, j, i) /\ i < j

RECURSIVE Ascending(_, _, _, _)
Ascending(idx, q, sortedby, docs) ==
    IF docs = {} THEN <<>>
    ELSE LET m == CHOOSE i \in docs :
                     \A j \in docs \ {i} : Before(idx, q, sortedby, i, j)
         IN  <<m>> \o Ascending(idx, q, sortedby, docs \ {m})

Reverse(q) == [k \in 1..Len(q) |-> q[Len(q) + 1 - k]]

\* searcher.search(query, sortedby, reverse, limit=None): the numbers of the
\* matching documents, sorted by (key, document number), the sorted list
\* reversed when reverse is set.
searcher_search(idx, q, sortedby, reverse) ==
    LET asc == Ascending(idx, q, sortedby, {k \in 1..Len(idx) : QueryMatches(idx[k], q)})
    IN  IF reverse THEN Reverse(asc) ELSE asc

\* The sort field passed to the searcher: "score" becomes None.
sortedby_of(sort) == IF sort \in {"title", "last_modified"} THEN sort ELSE "None"

\* reverse_flag with one meaning of reverse for every sort.
reverse_flag_shared(sort, o) == o = "desc"

\* The reverse flag passed to the searcher: order = "desc", flipped when
\* sorting by score.
reverse_flag(sort, o) ==
    IF sortedby_of(sort) = "None" THEN ~(o = "desc") ELSE o = "desc"

\* Flatnotes.search after its update_index(): the title and the score of the
\* SearchResult of every hit, in the order of the hits, or the error of the
\* parser.
search(idx, term0, sort, o) ==
    LET term == pre_process_search_term(term0)
    IN  IF term # Star /\ Malformed(term)
        THEN [hits |-> <<>>, scores |-> <<>>, error |-> "QueryParserError"]
        ELSE LET q == parse(term)
                 ranked == searcher_search(idx, q, sortedby_of(sort), reverse_flag(sort, o))
             IN  [hits   |-> [k \in 1..Len(ranked) |-> strip_ext(idx[ranked[k]].filename)],
                  scores |-> [k \in 1..Len(ranked) |->
                                IF sortedby_of(sort) = "None"
                                THEN Score(idx[ranked[k]], q) ELSE NoScore],
                  error  |-> "none"]

\* The titles of the hits of search(term) with the default sort and order.
search_hits(idx, term) == search(idx, term, "score", "desc").hits

-----------------------------------------------------------------------------
(* State *)

FileRecs == [content : Contents, mtime : Mtimes]

\* Listing orders: the root's files in either order, the subdirectory's after.
Orders == {<<RootA, RootBA, SubA>>, <<RootBA, RootA, SubA>>}

Callers == {"c1", "c2"}

NoPath == <<>>

\* No call has just ended. Of a call that has, `last` holds the operation and
\* its arguments, the filenames the index held when it was called, the hits
\* or tags it returned and the exception it raised.
NoCall == [op |-> "none", clean |-> FALSE, term |-> <<>>, pre |-> {},
           hits |-> <<>>, tags |-> {}, error |-> "none",
           sort |-> "none", order |-> "none", scores |-> <<>>]

INDEX_SCHEMA_VERSION == "3"

\* The index names a directory .flatnotes can hold data under: the current
\* schema version and an older one.
IndexNames == {"2", INDEX_SCHEMA_VERSION}

\* The states of the directory .flatnotes: it exists or not, and the index
\* names it holds data under. `index` is the data under the current version.
IndexDirs == {[exists |-> FALSE, names |-> {}]}
             \cup [exists : {TRUE}, names : SUBSET IndexNames]

\* The directory of an open index.
CurrentDir == [exists |-> TRUE, names |-> {INDEX_SCHEMA_VERSION}]

\* No function has been applied (SpecPure).
NoRes == [fn |-> "none", text |-> <<>>, tags |-> {}]

Keys(idx) == {idx[i].filename : i \in 1..Len(idx)}

\* A caller outside a call. pc is the statement the caller is at; w, indexed,
\* i, notes, j are update_index's writer, indexed, and loop positions; cur,
\* buf, ret are the note _add_note_to_index is adding, the content it read
\* and the loop it was called from; pre is the index the call started on.
Idle == [pc |-> "idle", op |-> "none", clean |-> FALSE, term |-> <<>>,
         w |-> NewWriter, indexed |-> {}, i |-> 0, notes |-> <<>>, j |-> 0,
         cur |-> <<>>, buf |-> <<>>, ret |-> "none", pre |-> <<>>]

\* After Flatnotes.__init__ on a directory without notes: a new index,
\* synchronized with it. The directory lists its entries in either order.
Init ==
    /\ files = [p \in Paths |-> NoFile]
    /\ order \in Orders
    /\ index = update_index(files, order, <<>>, FALSE)
    /\ lock = "free"
    /\ th = [t \in Callers |-> Idle]
    /\ last = NoCall
    /\ edited = NoPath
    /\ changes = 0
    /\ running = TRUE
    /\ index_dir = CurrentDir
    /\ arg = <<>>
    /\ res = NoRes

-----------------------------------------------------------------------------
(* The note store: files are added, edited and deleted by others *)

HasEntry(idx, name) == \E i \in 1..Len(idx) : idx[i].filename = name

EntriesOfName(idx, name) == {i \in 1..Len(idx) : idx[i].filename = name}

AddFile(p, c, m) ==
    /\ files[p] = NoFile
    /\ files' = [files EXCEPT ![p] = [content |-> c, mtime |-> m]]

\* An edit changes the modification time.
EditFile(p, c, m) ==
    /\ files[p] # NoFile
    /\ m # files[p].mtime
    /\ files' = [files EXCEPT ![p] = [content |-> c, mtime |-> m]]

DeleteFile(p) ==
    /\ files[p] # NoFile
    /\ files' = [files EXCEPT ![p] = NoFile]

\* The edit of an indexed file that adds a tag and changes the time as the
\* index stores it.
AddsTag(p, c, m) ==
    /\ HasEntry(index, Basename(p))
    /\ fromtimestamp(m) # fromtimestamp(files[p].mtime)
    /\ extract_tags(c).tags \ extract_tags(files[p].content).tags # {}

\* Spec: a file change between two calls.
Change ==
    /\ changes < MaxChanges
    /\ changes' = changes + 1
    /\ \E p \in Paths :
        \/ \E c \in Contents, m \in Mtimes : AddFile(p, c, m) /\ edited' = NoPath
        \/ \E c \in Contents, m \in Mtimes :
              /\ EditFile(p, c, m)
              /\ edited' = IF AddsTag(p, c, m) THEN p ELSE NoPath
        \/ DeleteFile(p) /\ edited' = NoPath
    /\ last' = NoCall
    /\ UNCHANGED <<order, index, lock, th, running, index_dir, arg, res>>

-----------------------------------------------------------------------------
(* Spec: the calls of one caller, each as one action *)

KeepEdited == edited' = IF last.op = "none" THEN edited ELSE NoPath

\* CallUpdateIndex that writes the tag-stripped content back to the notes.
CallUpdateIndexStripsNotes(clean) ==
    /\ index' = update_index(files, order, index, clean)
    /\ files' = [p \in Paths |->
                    IF files[p] = NoFile THEN NoFile
                    ELSE [files[p] EXCEPT !.content = extract_tags(@).text]]
    /\ last' = [NoCall EXCEPT !.op = "update_index", !.clean = clean, !.pre = Keys(index)]
    /\ KeepEdited
    /\ UNCHANGED <<order, lock, th, changes, running, index_dir, arg, res>>

\* Flatnotes.update_index(clean)
CallUpdateIndex(clean) ==
    /\ index' = update_index(files, order, index, clean)
    /\ last' = [NoCall EXCEPT !.op = "update_index", !.clean = clean, !.pre = Keys(index)]
    /\ KeepEdited
    /\ UNCHANGED <<files, order, lock, th, changes, running, index_dir, arg, res>>

\* Flatnotes.search(term, sort, order): update_index(), then the query on
\* the new index.
CallSearchSorted(term, sort, o) ==
    /\ index' = update_index(files, order, index, FALSE)
    /\ LET r == search(index', term, sort, o)
       IN  last' = [NoCall EXCEPT !.op = "search", !.term = term, !.pre = Keys(index),
                                 !.sort = sort, !.order = o,
                                 !.hits = r.hits, !.scores = r.scores, !.error = r.error]
    /\ KeepEdited
    /\ UNCHANGED <<files, order, lock, th, changes, running, index_dir, arg, res>>

\* Flatnotes.search(term): sort and order have their defaults.
CallSearch(term) == CallSearchSorted(term, "score", "desc")

\* Flatnotes.get_tags(): its first statement calls update_index_debounced,
\* which Flatnotes does not define: the call raises AttributeError before it
\* synchronizes or reads.
CallGetTags ==
    /\ last' = [NoCall EXCEPT !.op = "get_tags", !.pre = Keys(index), !.error = "AttributeError"]
    /\ KeepEdited
    /\ UNCHANGED <<files, order, index, lock, th, changes, running, index_dir, arg, res>>

Next ==
    \/ Change
    \/ \E clean \in BOOLEAN : CallUpdateIndex(clean)
    \/ \E term \in SearchTerms : CallSearch(term)
    \/ CallGetTags

Spec == Init /\ [][Next]_vars

-----------------------------------------------------------------------------
(* SpecSort: searches with every sort and order *)

\* The terms of the sorted searches: everything, and a term of two clauses
\* that match in fields of different weight.
SortTerms == {Star, <<"x", " ", "O", "R", " ", "w">>}

NextSort ==
    \/ changes < MaxSortChanges /\ Change
    \/ \E term \in SortTerms, sort \in Sorts, o \in SortOrders :
          CallSearchSorted(term, sort, o)

SpecSort == Init /\ [][NextSort]_vars

-----------------------------------------------------------------------------
(* SpecOpen: the process ends and a new one opens the index *)

\* helpers.empty_dir: the directory without its contents.
empty_dir(d) == [d EXCEPT !.names = {}]

\* whoosh.index.create_in(index_dir, IndexSchema, indexname): a new, empty
\* index under the name.
create_in(d, name) == [dir |-> [d EXCEPT !.names = @ \cup {name}], docs |-> <<>>]

\* Flatnotes._load_index on the directory d that holds the documents idx
\* under the current version: the directory it leaves and the index it returns.
load_index(d, idx) ==
    IF d.exists /\ INDEX_SCHEMA_VERSION \in d.names
    THEN [dir |-> d, docs |-> idx]
    ELSE IF d.exists
    THEN create_in(empty_dir(d), INDEX_SCHEMA_VERSION)
    ELSE create_in([exists |-> TRUE, names |-> {}], INDEX_SCHEMA_VERSION)

\* Flatnotes.__init__ (the notes directory exists): _load_index, then
\* update_index().
Construct ==
    /\ ~running
    /\ running' = TRUE
    /\ LET ld == load_index(index_dir, index)
       IN  /\ index_dir' = ld.dir
           /\ index' = update_index(files, order, ld.docs, FALSE)
           /\ last' = [NoCall EXCEPT !.op = "init", !.pre = Keys(ld.docs)]
    /\ KeepEdited
    /\ UNCHANGED <<files, order, lock, th, changes, arg, res>>

\* The process ends; the index stays in its directory.
Exit ==
    /\ running
    /\ running' = FALSE
    /\ last' = NoCall
    /\ UNCHANGED <<files, order, index, lock, th, edited, changes, index_dir, arg, res>>

\* While no process runs, the directory .flatnotes is removed, emptied, or
\* left with the data of another release; data under the current version is
\* kept or lost, never made.
OthersChangeIndexDir ==
    /\ ~running
    /\ \E d \in IndexDirs :
          /\ d # index_dir
          /\ (INDEX_SCHEMA_VERSION \in d.names) => (INDEX_SCHEMA_VERSION \in index_dir.names)
          /\ index_dir' = d
          /\ index' = IF INDEX_SCHEMA_VERSION \in d.names THEN index ELSE <<>>
    /\ last' = NoCall
    /\ UNCHANGED <<files, order, lock, th, edited, changes, running, arg, res>>

NextOpen ==
    \/ Change
    \/ running /\ CallUpdateIndex(FALSE)
    \/ Exit
    \/ OthersChangeIndexDir
    \/ Construct

SpecOpen == Init /\ [][NextOpen]_vars

-----------------------------------------------------------------------------
(* SpecPure: extract_tags and pre_process_search_term applied to strings *)

\* A word character in both cases, the "#", whitespace and a character that
\* is neither.
PureChars == {"#", " ", "x", "X", "-"}

\* The content and the term of the documented examples.
ShoppingContent ==
    <<"S", "h", "o", "p", "p", "i", "n", "g", " ",
      "#", "g", "r", "o", "c", "e", "r", "i", "e", "s", " ", "l", "i", "s", "t">>
GroceriesTerm == <<"#", "g", "r", "o", "c", "e", "r", "i", "e", "s">>

\* Every string of at most MaxLen characters, and the examples.
PureArgs ==
    UNION {[1..k -> PureChars] : k \in 0..MaxLen} \cup {ShoppingContent, GroceriesTerm}

InitPure ==
    /\ files = [p \in Paths |-> NoFile]
    /\ order = <<RootA, RootBA, SubA>>
    /\ index = <<>>
    /\ lock = "free"
    /\ th = [t \in Callers |-> Idle]
    /\ last = NoCall
    /\ edited = NoPath
    /\ changes = 0
    /\ running = TRUE
    /\ index_dir = CurrentDir
    /\ arg \in PureArgs
    /\ res = NoRes

\* Flatnotes.extract_tags(arg)
ApplyExtractTags ==
    /\ res' = [fn |-> "extract_tags", text |-> extract_tags(arg).text,
                tags |-> extract_tags(arg).tags]
    /\ UNCHANGED <<files, order, index, lock, th, last, edited, changes,
                   running, index_dir, arg>>

\* Flatnotes.pre_process_search_term(arg)
ApplyPreProcess ==
    /\ res' = [fn |-> "pre_process_search_term", text |-> pre_process_search_term(arg),
                tags |-> {}]
    /\ UNCHANGED <<files, order, index, lock, th, last, edited, changes,
                   running, index_dir, arg>>

NextPure ==
    \/ ApplyExtractTags
    \/ ApplyPreProcess

SpecPure == InitPure /\ [][NextPure]_vars

-----------------------------------------------------------------------------
(* SpecConc: two callers, update_index step by step *)

\* The caller holds the writer that update_index opened.
InWriter(t) ==
    th[t].pc \in {"exists", "getmtime", "content", "last_modified", "get_notes", "commit"}

\* How the call of caller t ends, when it ends with this step.
Outcome(t, hits, error) ==
    [NoCall EXCEPT !.op = th[t].op, !.clean = th[t].clean, !.term = th[t].term,
                   !.pre = Keys(th[t].pre), !.hits = hits, !.error = error]

\* The call ends with an exception. The writer the call opened is neither
\* committed nor cancelled: its lock stays held by the abandoned writer.
Raise(t, error) ==
    /\ th' = [th EXCEPT ![t] = Idle]
    /\ lock' = IF lock = t THEN "leaked" ELSE lock
    /\ last' = Outcome(t, <<>>, error)

\* The first note from position j on that is not marked as indexed (the
\* test of the loop over _get_notes()), 0 when there is none.
NextNew(notes, indexed, j) ==
    LET new == {k \in j..Len(notes) : filename(notes[k]) \notin indexed}
    IN  IF new = {} THEN 0 ELSE Min(new)

\* The caller's locals when the body of the loop over the indexed documents
\* is done for document i.
AfterIndexed(r, idx) ==
    IF r.i < Len(idx)
    THEN [r EXCEPT !.pc = "exists", !.i = r.i + 1]
    ELSE [r EXCEPT !.pc = "get_notes", !.i = r.i + 1]

\* Begin with a writer that takes no lock.
BeginWithoutLock(t, op, clean, term) ==
    /\ th[t].pc = "idle"
    /\ lock' = t
    /\ th' = [th EXCEPT ![t] =
                [Idle EXCEPT !.pc = IF Len(index) = 0 THEN "get_notes" ELSE "exists",
                             !.op = op, !.clean = clean, !.term = term,
                             !.i = 1, !.pre = index]]
    /\ last' = NoCall
    /\ UNCHANGED <<files, order, index, edited, changes, running, index_dir, arg, res>>

\* update_index(clean), or the update_index() that search(term) starts with:
\* index.writer() takes the index's write lock without waiting and raises
\* LockError when another writer holds it; the searcher is opened on the
\* committed index.
Begin(t, op, clean, term) ==
    /\ th[t].pc = "idle"
    /\ IF lock = "free"
       THEN /\ lock' = t
            /\ th' = [th EXCEPT ![t] =
                        [Idle EXCEPT !.pc = IF Len(index) = 0 THEN "get_notes" ELSE "exists",
                                     !.op = op, !.clean = clean, !.term = term,
                                     !.i = 1, !.pre = index]]
            /\ last' = NoCall
       ELSE /\ lock' = lock
            /\ th' = th
            /\ last' = [NoCall EXCEPT !.op = op, !.error = "LockError"]
    /\ UNCHANGED <<files, order, index, edited, changes, running, index_dir, arg, res>>

\* StepExists with a delete that is committed at once instead of staged.
StepExistsDeletesAtOnce(t) ==
    /\ th[t].pc = "exists"
    /\ LET r == th[t]
           idx_filename == index[r.i].filename
       IN  IF ~exists(files, JoinDir(idx_filename))
           THEN /\ index' = Kept(index, 1, EntriesOfName(index, idx_filename))
                /\ th' = [th EXCEPT ![t] =
                            IF Len(index') = 0
                            THEN [r EXCEPT !.pc = "get_notes", !.i = 1]
                            ELSE [r EXCEPT !.pc = "exists", !.i = 1]]
           ELSE /\ index' = index
                /\ th' = [th EXCEPT ![t].pc = "getmtime"]
    /\ last' = NoCall
    /\ UNCHANGED <<files, order, lock, edited, changes, running, index_dir, arg, res>>

\* os.path.exists(idx_filepath) for indexed document i; the missing file's
\* documents are deleted in the writer.
StepExists(t) ==
    /\ th[t].pc = "exists"
    /\ LET r == th[t]
           idx_filename == index[r.i].filename
       IN  IF ~exists(files, JoinDir(idx_filename))
           THEN th' = [th EXCEPT ![t] =
                        AfterIndexed([r EXCEPT !.w = delete_by_term(@, index, idx_filename)],
                                     index)]
           ELSE th' = [th EXCEPT ![t].pc = "getmtime"]
    /\ last' = NoCall
    /\ UNCHANGED <<files, order, index, lock, edited, changes, running, index_dir, arg, res>>

\* os.path.getmtime(idx_filepath) and its comparison with the stored time.
StepGetmtime(t) ==
    /\ th[t].pc = "getmtime"
    /\ LET r == th[t]
           idx_filename == index[r.i].filename
           idx_filepath == JoinDir(idx_filename)
       IN  IF ~exists(files, idx_filepath)
           THEN Raise(t, "FileNotFoundError")
           ELSE /\ lock' = lock
                /\ last' = NoCall
                /\ IF fromtimestamp(files[idx_filepath].mtime) # index[r.i].last_modified
                   THEN th' = [th EXCEPT ![t] =
                                [r EXCEPT !.pc = "content", !.ret = "indexed",
                                          !.cur = strip_ext(idx_filename)]]
                   ELSE th' = [th EXCEPT ![t] =
                                AfterIndexed([r EXCEPT !.indexed = @ \cup {idx_filename}],
                                             index)]
    /\ UNCHANGED <<files, order, index, edited, changes, running, index_dir, arg, res>>

\* note.content in _add_note_to_index: open(note.filepath).
StepContent(t) ==
    /\ th[t].pc = "content"
    /\ LET fp == filepath(files, order, th[t].cur)
       IN  IF fp = <<>>
           THEN Raise(t, "FileNotFoundError")
           ELSE /\ lock' = lock
                /\ last' = NoCall
                /\ th' = [th EXCEPT ![t].pc = "last_modified",
                                    ![t].buf = files[fp].content]
    /\ UNCHANGED <<files, order, index, edited, changes, running, index_dir, arg, res>>

\* note.last_modified in _add_note_to_index: getmtime(note.filepath), then
\* writer.update_document; back in the loop the call came from.
StepLastModified(t) ==
    /\ th[t].pc = "last_modified"
    /\ LET r  == th[t]
           fp == filepath(files, order, r.cur)
       IN  IF fp = <<>>
           THEN Raise(t, "FileNotFoundError")
           ELSE LET w == update_document(r.w, index, NoteDoc(r.cur, r.buf, files[fp].mtime))
                    done == [r EXCEPT !.w = w, !.cur = <<>>, !.buf = <<>>, !.ret = "none"]
                IN  /\ lock' = lock
                    /\ last' = NoCall
                    /\ IF r.ret = "indexed"
                       THEN th' = [th EXCEPT ![t] =
                                    AfterIndexed([done EXCEPT !.indexed = @ \cup {filename(r.cur)}],
                                                 index)]
                       ELSE LET k == NextNew(r.notes, r.indexed, r.j + 1)
                            IN  th' = [th EXCEPT ![t] =
                                        IF k = 0
                                        THEN [done EXCEPT !.pc = "commit", !.j = 0]
                                        ELSE [done EXCEPT !.pc = "content", !.ret = "new",
                                                          !.j = k, !.cur = r.notes[k]]]
    /\ UNCHANGED <<files, order, index, edited, changes, running, index_dir, arg, res>>

\* self._get_notes(): the listing of the note files, and the loop up to the
\* first note that is not marked as indexed.
StepGetNotes(t) ==
    /\ th[t].pc = "get_notes"
    /\ LET r     == th[t]
           notes == get_notes(files, order)
           k     == NextNew(notes, r.indexed, 1)
       IN  th' = [th EXCEPT ![t] =
                    IF k = 0
                    THEN [r EXCEPT !.pc = "commit"]
                    ELSE [r EXCEPT !.pc = "content", !.ret = "new", !.notes = notes,
                                   !.j = k, !.cur = notes[k]]]
    /\ last' = NoCall
    /\ UNCHANGED <<files, order, index, lock, edited, changes, running, index_dir, arg, res>>

\* StepCommit of a search that parses its term before the commit: on a
\* malformed term the call ends with the writer still open.
StepCommitParsesFirst(t) ==
    /\ th[t].pc = "commit"
    /\ IF th[t].op = "search" /\ Malformed(pre_process_search_term(th[t].term))
       THEN /\ Raise(t, "QueryParserError")
            /\ index' = index
       ELSE /\ index' = commit(th[t].w, index, th[t].clean)
            /\ lock' = "free"
            /\ IF th[t].op = "search"
               THEN /\ th' = [th EXCEPT ![t] =
                                [Idle EXCEPT !.pc = "query", !.op = "search",
                                             !.term = th[t].term, !.pre = th[t].pre]]
                    /\ last' = NoCall
               ELSE /\ th' = [th EXCEPT ![t] = Idle]
                    /\ last' = Outcome(t, <<>>, "none")
    /\ UNCHANGED <<files, order, edited, changes, running, index_dir, arg, res>>

\* writer.commit(): the staged work becomes the committed index and the
\* lock is released. update_index returns; search goes on to its query.
StepCommit(t) ==
    /\ th[t].pc = "commit"
    /\ index' = commit(th[t].w, index, th[t].clean)
    /\ lock' = "free"
    /\ IF th[t].op = "search"
       THEN /\ th' = [th EXCEPT ![t] =
                        [Idle EXCEPT !.pc = "query", !.op = "search", !.term = th[t].term,
                                     !.pre = th[t].pre]]
            /\ last' = NoCall
       ELSE /\ th' = [th EXCEPT ![t] = Idle]
            /\ last' = Outcome(t, <<>>, "none")
    /\ UNCHANGED <<files, order, edited, changes, running, index_dir, arg, res>>

\* The rest of search(term) after its update_index(): the term is parsed
\* and the query runs on a searcher of the committed index.
StepQuery(t) ==
    /\ th[t].pc = "query"
    /\ th' = [th EXCEPT ![t] = Idle]
    /\ LET r == search(index, th[t].term, "score", "desc")
       IN  last' = Outcome(t, r.hits, r.error)
    /\ UNCHANGED <<files, order, index, lock, edited, changes, running, index_dir, arg, res>>

\* The terms the concurrent callers search for: everything, and a malformed
\* expression.
BadTerm == <<"(">>
ConcTerms == {Star, BadTerm}

\* An abandoned writer is collected: its lock object releases the lock.
CollectWriter ==
    /\ lock = "leaked"
    /\ lock' = "free"
    /\ last' = NoCall
    /\ UNCHANGED <<files, order, index, th, edited, changes, running, index_dir, arg, res>>

\* A file change at any moment.
ChangeConc ==
    /\ changes < MaxConcChanges
    /\ changes' = changes + 1
    /\ \E p \in Paths :
        \/ \E c \in Contents, m \in Mtimes : AddFile(p, c, m)
        \/ \E c \in Contents, m \in Mtimes : EditFile(p, c, m)
        \/ DeleteFile(p)
    /\ last' = NoCall
    /\ UNCHANGED <<order, index, lock, th, edited, running, index_dir, arg, res>>

NextConc ==
    \/ ChangeConc
    \/ CollectWriter
    \/ \E t \in Callers :
        \/ \E clean \in BOOLEAN : Begin(t, "update_index", clean, <<>>)
        \/ \E term \in ConcTerms : Begin(t, "search", FALSE, term)
        \/ StepExists(t)
        \/ StepGetmtime(t)
        \/ StepContent(t)
        \/ StepLastModified(t)
        \/ StepGetNotes(t)
        \/ StepCommit(t)
        \/ StepQuery(t)

SpecConc == Init /\ [][NextConc]_vars

-----------------------------------------------------------------------------
(* What the claims speak of *)

Present == {p \in Paths : files[p] # NoFile}

Range(f) == {f[i] : i \in DOMAIN f}

\* The document of a file under its own name.
FileDoc(p) == NoteDoc(strip_ext(Basename(p)), files[p].content, files[p].mtime)

Synced == last.op = "update_index" /\ ~last.clean

-----------------------------------------------------------------------------
(* Claims checked under Spec *)

\* C1: after update_index() commits, the number of entries in the index
\* equals the number of note files present, at any directory depth.
C1_EntryCountEqualsFileCount ==
    Synced => Len(index) = Cardinality(Present)

\* C2: an indexed note file is edited so that it carries a new tag and its
\* modification time changes; after the next update_index() every entry of
\* its key holds the file's tag set, its tag-stripped content and its
\* modification time, and a search for the new tag returns the note.
C2_EditReachesIndex ==
    (Synced /\ edited # NoPath) =>
        LET name == Basename(edited)
            doc  == FileDoc(edited)
        IN  /\ EntriesOfName(index, name) # {}
            /\ \A i \in EntriesOfName(index, name) : index[i] = doc
            /\ \A t \in doc.tags :
                  strip_ext(name) \in Range(search_hits(index, <<"#">> \o t))

\* C3: once no note file has a name, the index has no entry of that name
\* after update_index(), and no search("*") returns a result for it.
C3_DeletedFileLeavesIndex ==
    (last.op \in {"update_index", "search"}) =>
        /\ \A i \in 1..Len(index) :
              \E p \in Present : Basename(p) = index[i].filename
        /\ (last.op = "search" /\ last.term = Star) =>
              \A k \in 1..Len(last.hits) :
                  \E p \in Present : Basename(p) = filename(last.hits[k])

\* C3's case: an update_index() that found an entry of a name no file has
\* any more, and whose index holds no such entry.
C3_Witness ==
    /\ last.op = "update_index"
    /\ \E name \in last.pre :
          /\ \A p \in Present : Basename(p) # name
          /\ ~HasEntry(index, name)

\* C4: the hits of a search() are those of the note files present when it
\* was called: the notes whose own title, content or tags match the term.
C4_SearchReflectsFiles ==
    (last.op = "search") =>
        Range(last.hits) =
            {strip_ext(Basename(p)) :
                p \in {q \in Present :
                          Matches(FileDoc(q), pre_process_search_term(last.term))}}

\* C5: get_tags() synchronizes and returns the tags of the note files present.
C5_GetTagsReturnsTags ==
    (last.op = "get_tags") =>
        /\ last.error = "none"
        /\ last.tags = UNION {FileDoc(p).tags : p \in Present}

\* C6: when update_index(clean=True) commits, the index holds one entry for
\* every note file present, indexed before or not.
C6_CleanRebuildIndexesAll ==
    (last.op = "update_index" /\ last.clean) =>
        /\ Len(index) = Cardinality(Present)
        /\ \A p \in Present : HasEntry(index, Basename(p))

\* C10: no two index entries share a filename.
C10_UniqueKeys ==
    \A i, j \in 1..Len(index) : i # j => index[i].filename # index[j].filename

\* C16: update_index(), search() and get_tags() leave the note files as
\* they are: a step that ends a call changes neither the set of files nor a
\* content nor a modification time; the files change only by the note store.
C16_CoreLeavesNoteFiles ==
    [][ /\ (last'.op # "none") => files' = files
        /\ (files' # files) => changes' = changes + 1
      ]_vars

\* C16's case: a search has synchronized the index with a note that carries
\* a tag and returned it, and the note still carries the tag.
C16_Witness ==
    /\ last.op = "search"
    /\ \E p \in Present :
          /\ strip_ext(Basename(p)) \in Range(last.hits)
          /\ files[p].content = TagContent
          /\ \E i \in 1..Len(index) : index[i].content # files[p].content

\* C17: an update_index() issues no write for an entry that has a note file
\* of its name, wherever the file lies, with the stored modification time:
\* the writer neither deletes the entry nor adds a document of its name,
\* and the committed index still holds the entry.
C17_UnchangedEntryNotWritten ==
    [][ (last'.op \in {"update_index", "search"} /\ ~last'.clean) =>
          LET w == staged(files, order, index)
          IN  \A i \in 1..Len(index) :
                  LET own == {p \in Present : Basename(p) = index[i].filename}
                  IN  (/\ Cardinality(own) = 1
                       /\ EntriesOfName(index, index[i].filename) = {i}
                       /\ \A p \in own :
                             fromtimestamp(files[p].mtime) = index[i].last_modified) =>
                          /\ i \notin w.deleted
                          /\ \A k \in 1..Len(w.added) :
                                w.added[k].filename # index[i].filename
                          /\ index[i] \in Range(index')
      ]_vars

\* C19: when the note files have pairwise different base names, the note
\* object of every search hit resolves to the file named after its key.
C19_NoteResolvesToItsFile ==
    (/\ last.op = "search"
     /\ \A p, q \in Present : p # q => Basename(p) # Basename(q)) =>
        \A k \in 1..Len(last.hits) :
            LET fp == filepath(files, order, last.hits[k])
            IN  fp \in Present /\ Basename(fp) = filename(last.hits[k])

-----------------------------------------------------------------------------
(* Claims checked under SpecConc *)

\* C7: the deletes, updates and inserts of one update_index() are staged in
\* its writer and become visible together at its commit: the committed
\* index changes only by the commit of the caller that holds the writer, to
\* the result of all that writer staged on the index the call started on;
\* while a caller holds the writer the committed index is the one its call
\* started on; and a call that ends by an exception leaves it so.
C7_CommitIsAtomic ==
    [][ /\ (index' # index) =>
              \E t \in Callers :
                  /\ th[t].pc = "commit"
                  /\ index' = commit(th[t].w, th[t].pre, th[t].clean)
        /\ \A t \in Callers :
              /\ InWriter(t) => index = th[t].pre
              /\ (InWriter(t) /\ th'[t].pc = "idle" /\ last'.error # "none") =>
                    index' = th[t].pre
      ]_vars

\* C7's case: a caller about to commit a writer that holds deletes and
\* inserts, none of them in the committed index yet.
C7_Witness ==
    \E t \in Callers :
        /\ th[t].pc = "commit"
        /\ th[t].w.deleted # {}
        /\ th[t].w.added # <<>>
        /\ index = th[t].pre

\* C8: at most one caller holds the index writer, the one that holds the
\* lock; a caller that does not hold it has nothing staged.
C8_SingleWriter ==
    /\ \A t1, t2 \in Callers : (InWriter(t1) /\ InWriter(t2)) => t1 = t2
    /\ \A t \in Callers : InWriter(t) <=> lock = t
    /\ \A t \in Callers : ~InWriter(t) => th[t].w = NewWriter

\* C8's case: while one caller holds the writer with work staged, the call
\* of the other has just been refused the writer.
C8_Witness ==
    /\ last.error = "LockError"
    /\ \E t \in Callers : InWriter(t) /\ th[t].w # NewWriter

\* C9: update_index() does not raise when a note file is removed after it
\* was enumerated: no update_index ends with FileNotFoundError.
C9_RemovedFileTolerated ==
    last.error # "FileNotFoundError"

C18_ConcurrentSearchesBothReturn ==
    ~(/\ last.op = "search"
      /\ last.error = "LockError"
      /\ \E t \in Callers : th[t].op = "search" /\ lock = t)

\* C20: when an update_index() has ended, by returning or by raising, its
\* writer no longer holds the lock: the lock is free or held by a caller
\* inside update_index, and a call is refused the writer only then.
C20_WriterReleasedAtEnd ==
    /\ lock # "leaked"
    /\ (last.error = "LockError") => \E t \in Callers : lock = t /\ InWriter(t)

-----------------------------------------------------------------------------
(* Claims checked under SpecOpen *)

\* C11: constructing Flatnotes raises no error whatever the index directory
\* holds: data under the current schema version is loaded with its entries;
\* a directory without such data is emptied and holds a new empty index; a
\* missing directory is created with a new empty index; and after the
\* update_index() that follows, the index holds one entry for every note
\* file present.
C11_OpenThenOneEntryPerFile ==
    [][ (last'.op = "init") =>
          /\ last'.error = "none"
          /\ IF index_dir.exists /\ INDEX_SCHEMA_VERSION \in index_dir.names
             THEN last'.pre = Keys(index) /\ index_dir' = index_dir
             ELSE last'.pre = {} /\ index_dir' = CurrentDir
          /\ Len(index') = Cardinality({p \in Paths : files'[p] # NoFile})
          /\ \A p \in Paths : files'[p] # NoFile => HasEntry(index', Basename(p))
      ]_vars

-----------------------------------------------------------------------------
(* Claims checked under SpecPure *)

\* The string without the whitespace at its ends.
Trimmed(s) ==
    LET ink == {i \in 1..Len(s) : s[i] \notin SpaceChars}
    IN  IF ink = {} THEN <<>> ELSE SubSeq(s, Min(ink), Max(ink))

\* The first maximal run of whitespace or of other characters of a string.
FirstRun(s) ==
    LET sp == s[1] \in SpaceChars
    IN  SubSeq(s, 1, Max({j \in 1..Len(s) : \A k \in 1..j : (s[k] \in SpaceChars) = sp}))

\* A hashtag token: "#" and one or more word characters.
IsHashtag(tok) ==
    /\ Len(tok) >= 2
    /\ tok[1] = "#"
    /\ \A k \in 2..Len(tok) : tok[k] \in WordChars

\* The string with every run that is a hashtag token #name turned into
\* tags:name and every other run as it is.
RECURSIVE HashtagsAsFilters(_)
HashtagsAsFilters(s) ==
    IF s = <<>> THEN <<>>
    ELSE LET run == FirstRun(s)
         IN  (IF IsHashtag(run) THEN TagsPrefix \o Tail(run) ELSE run)
             \o HashtagsAsFilters(SubSeq(s, Len(run) + 1, Len(s)))

\* The names of the hashtag tokens among the runs of a string.
RECURSIVE HashtagNames(_)
HashtagNames(s) ==
    IF s = <<>> THEN {}
    ELSE LET run == FirstRun(s)
         IN  (IF IsHashtag(run) THEN {LowerStr(Tail(run))} ELSE {})
             \cup HashtagNames(SubSeq(s, Len(run) + 1, Len(s)))

\* C12: pre_process_search_term returns the trimmed term with every token
\* #name (delimited by whitespace or the ends of the term) rewritten to
\* tags:name and all other text unchanged; "#groceries" becomes
\* "tags:groceries", and the query of a single hashtag term matches exactly
\* the documents whose tag set contains the name.
C12_HashtagBecomesTagFilter ==
    (res.fn = "pre_process_search_term") =>
        /\ res.text = HashtagsAsFilters(Trimmed(arg))
        /\ (arg = GroceriesTerm) =>
              res.text = TagsPrefix \o <<"g", "r", "o", "c", "e", "r", "i", "e", "s">>
        /\ IsHashtag(Trimmed(arg)) =>
              \A tags \in SUBSET {<<"x">>, <<"x", "x">>, Tail(LowerStr(GroceriesTerm))} :
                  LET doc == [NoteDoc(<<"a">>, PlainContent, 0) EXCEPT !.tags = tags]
                  IN  Matches(doc, res.text) <=> (LowerStr(Tail(Trimmed(arg))) \in tags)

\* C12's case: a term with whitespace at an end and a hashtag token has
\* been trimmed and rewritten.
C12_Witness ==
    /\ res.fn = "pre_process_search_term"
    /\ Trimmed(arg) # arg
    /\ res.text # Trimmed(arg)

\* C14: extract_tags returns the lowercased names of the tag tokens as a
\* set; for "Shopping #groceries list" the tags {"groceries"} and the
\* content "Shopping list"; for content without a tag token no tags and
\* the content unchanged.
C14_ExtractTagsExample ==
    (res.fn = "extract_tags") =>
        /\ res.tags = HashtagNames(arg)
        /\ (HashtagNames(arg) = {}) => res.text = arg
        /\ (arg = ShoppingContent) =>
              /\ res.tags = {<<"g", "r", "o", "c", "e", "r", "i", "e", "s">>}
              /\ res.text = <<"S", "h", "o", "p", "p", "i", "n", "g", " ",
                              "l", "i", "s", "t">>

-----------------------------------------------------------------------------
(* Claims checked under SpecSort *)

OtherOrder(o) == IF o = "asc" THEN "desc" ELSE "asc"

NonIncreasing(q) == \A k \in 1..(Len(q) - 1) : q[k] >= q[k + 1]
NonDecreasing(q) == \A k \in 1..(Len(q) - 1) : q[k] <= q[k + 1]

\* C13: a search sorted by title returns the hits of the same search with
\* the other order exactly reversed, ascending titles first for asc; sorted
\* by score, desc returns the highest scores first and asc the lowest
\* first; the reverse flag passed to the searcher for a score sort is the
\* opposite of the one passed for a field sort with the same order.
C13_SortOrders ==
    (last.op = "search" /\ last.error = "none") =>
        LET back == search(index, last.term, last.sort, OtherOrder(last.order))
        IN  /\ (last.sort = "title") =>
                  /\ last.hits = Reverse(back.hits)
                  /\ \A k \in 1..(Len(last.hits) - 1) :
                        IF last.order = "asc"
                        THEN ~StrLess(last.hits[k + 1], last.hits[k])
                        ELSE ~StrLess(last.hits[k], last.hits[k + 1])
            /\ (last.sort = "score" /\ last.order = "desc") => NonIncreasing(last.scores)
            /\ (last.sort = "score" /\ last.order = "asc") => NonDecreasing(last.scores)
            /\ (last.sort = "score") => last.scores = Reverse(back.scores)
            /\ reverse_flag("score", last.order) # reverse_flag("title", last.order)

\* C13's case: a search sorted by score, highest first, with hits of
\* different scores.
C13_Witness ==
    /\ last.op = "search"
    /\ last.sort = "score"
    /\ last.order = "desc"
    /\ \E k \in 1..(Len(last.scores) - 1) : last.scores[k] > last.scores[k + 1]

====
